---- MODULE Spec2Model ----
(***************************************************************************)
(* CareSync SMS reminder server: the reminder store, the HTTP handlers     *)
(* that create reminders and send ad hoc messages, and the cron callback   *)
(* that dispatches due reminders through the SMS gateway.                  *)
(*                                                                         *)
(* The repository holds three revisions of the dispatch code; rev says     *)
(* which one a behaviour runs:                                             *)
(*   "index"    src/sms-server/index.js                                    *)
(*   "part_001" src/unnamed/part_001  (formatPhone helper, phone required) *)
(*   "part_000" src/unnamed/part_000  (stand-alone cron job, sendSMS lib)  *)
(***************************************************************************)
EXTENDS Integers, Sequences, FiniteSets, TLC

VARIABLES
    rev,        \* the revision that runs
    store,      \* the reminders collection, in insertion order; _id = index
    clock,      \* the time of the latest cron firing, milliseconds
    tick,       \* per cron firing slot: position and locals of the callback
    gwCalls,    \* per reminder _id: the gateway calls made for it, in order
    resp,       \* the last HTTP exchange: status, and the gateway call it made
    saveFailed, \* some r.save() of the dispatch loop was rejected
    escaped     \* an error left the cron callback uncaught

vars == <<rev, store, clock, tick, gwCalls, resp, saveFailed, escaped>>

----------------------------------------------------------------------------
\* Bounds of the model

MaxReminders == 2
MaxMinutes == 2

\* the longest raw phone string of the normalization check
MaxLen == 4

----------------------------------------------------------------------------
\* Values

Revs == {"index", "part_001", "part_000"}

TickIds == {1, 2}

\* a field that was not supplied: JS undefined (a Date or a number field)
Undefined == -1

\* a string field that was not supplied; a template literal prints it so
NoStr == "undefined"

MinuteMs == 60 * 1000

DayMs == 24 * 60 * 60 * 1000

LocalPhone == <<"0", "7", "1", "2", "3", "4", "5", "6", "7", "8">>

BarePhone == <<"7", "1", "2", "3", "4", "5", "6", "7", "8">>

BlankPhone == <<" ">>

NoPhone == <<>>

Phones == {NoPhone, LocalPhone, BarePhone, BlankPhone}

\* sendAt of a request: one of the minutes at which the cron job fires, or none
SendAtInputs == {m * MinuteMs : m \in 1..MaxMinutes} \cup {Undefined}

\* the phone and sendAt of the bodies POSTed to the medication endpoints ...
MedicationInputs ==
    {<<LocalPhone, s>> : s \in SendAtInputs} \cup {<<NoPhone, MinuteMs>>, <<BarePhone, MinuteMs>>}

\* ... and to the appointment endpoint: sendAt is the latest minute
AppointmentInputs == {<<LocalPhone, MaxMinutes * MinuteMs>>, <<NoPhone, MaxMinutes * MinuteMs>>}

RepeatInputs == {Undefined, 0, 1, 2}

Digits == {"0", "1", "2", "3", "4", "5", "6", "7", "8", "9"}

\* the characters the normalization tells apart: the trunk prefix, the digits
\* of the country code, the plus sign, and a character that is stripped
PhoneChars == {"0", "2", "5", "4", "+", " "}

CountryPhone == <<"2", "5", "4", "7", "1", "2", "3", "4", "5", "6", "7", "8">>

SpacedPhone == <<"0", "7", "1", "2", " ", "3", "4", "5", "-", "6", "7", "8">>

\* raw phone strings: every string of up to MaxLen of these characters, and
\* the full-length numbers
PhoneInputs ==
    UNION {[1..n -> PhoneChars] : n \in 1..MaxLen}
        \cup {LocalPhone, BarePhone, CountryPhone, SpacedPhone, <<"+">> \o CountryPhone}

----------------------------------------------------------------------------
\* Strings as sequences of characters

StartsWith(s, pre) ==
    Len(s) >= Len(pre) /\ SubSeq(s, 1, Len(pre)) = pre

\* .trim().replace(/[\s\-\(\)]/g, '')
StripPhone(s) == SelectSeq(s, LAMBDA c : c \notin {" ", "-", "(", ")"})

\* the inline formatting with the trunk prefix left in place
InlineFormatKeepsZero(phone) ==
    LET p == StripPhone(phone) IN
    IF StartsWith(p, <<"2", "5", "4">>) THEN <<"+">> \o p
    ELSE IF ~StartsWith(p, <<"+", "2", "5", "4">>) THEN <<"+", "2", "5", "4">> \o p
    ELSE p

\* the inline formatting without its test for a number that is already +254
InlineFormatAlwaysPrefixes(phone) ==
    LET p == StripPhone(phone) IN
    IF StartsWith(p, <<"0">>) THEN <<"+", "2", "5", "4">> \o SubSeq(p, 2, Len(p))
    ELSE IF StartsWith(p, <<"2", "5", "4">>) THEN <<"+">> \o p
    ELSE <<"+", "2", "5", "4">> \o p

\* the inline formatting of index.js: every number gets a +254 prefix
InlineFormat(phone) ==
    LET p == StripPhone(phone) IN
    IF StartsWith(p, <<"0">>) THEN <<"+", "2", "5", "4">> \o SubSeq(p, 2, Len(p))
    ELSE IF StartsWith(p, <<"2", "5", "4">>) THEN <<"+">> \o p
    ELSE IF ~StartsWith(p, <<"+", "2", "5", "4">>) THEN <<"+", "2", "5", "4">> \o p
    ELSE p

\* formatPhone of part_001: null (here <<>>, which no other branch returns)
\* for a number with none of the three prefixes
formatPhone(phone) ==
    LET p == StripPhone(phone) IN
    IF StartsWith(p, <<"0">>) THEN <<"+", "2", "5", "4">> \o SubSeq(p, 2, Len(p))
    ELSE IF StartsWith(p, <<"2", "5", "4">>) THEN <<"+">> \o p
    ELSE IF StartsWith(p, <<"+", "2", "5", "4">>) THEN p
    ELSE <<>>

\* /^\+254[17]\d{8}$/
phoneRegexTest(s) ==
    /\ Len(s) = 13
    /\ SubSeq(s, 1, 4) = <<"+", "2", "5", "4">>
    /\ s[5] \in {"1", "7"}
    /\ \A k \in 6..13 : s[k] \in Digits

----------------------------------------------------------------------------
\* The Reminder model

\* a schema whose sent path defaults to true
NewReminderSent(name, phone, type, medication, clinicName, appointmentDate, appointmentTime, sendAt) ==
    [name |-> name, phone |-> phone, type |-> type, medication |-> medication,
     clinicName |-> clinicName, appointmentDate |-> appointmentDate,
     appointmentTime |-> appointmentTime, sendAt |-> sendAt, sent |-> TRUE]

\* new Reminder({...}) under reminderSchema: sent defaults to false
NewReminder(name, phone, type, medication, clinicName, appointmentDate, appointmentTime, sendAt) ==
    [name |-> name, phone |-> phone, type |-> type, medication |-> medication,
     clinicName |-> clinicName, appointmentDate |-> appointmentDate,
     appointmentTime |-> appointmentTime, sendAt |-> sendAt, sent |-> FALSE]

MedicationReminder(name, phone, medication, sendAt) ==
    NewReminder(name, phone, "medication", medication, NoStr, Undefined, NoStr, sendAt)

AppointmentReminder(name, phone, clinicName, appointmentDate, appointmentTime, sendAt) ==
    NewReminder(name, phone, "appointment", NoStr, clinicName, appointmentDate,
                appointmentTime, sendAt)

\* a document of models/Reminder.js, which has no type path
JobReminder(name, phone, medication, sendAt) ==
    NewReminder(name, phone, NoStr, medication, NoStr, Undefined, NoStr, sendAt)

\* the filter without its sent: false
DueWhateverSent(r, now) ==
    /\ r.sendAt # Undefined
    /\ r.sendAt <= now

\* the filter without its sendAt bound
DueWhateverTime(r, now) == r.sent = FALSE

\* the filter { sent: false, sendAt: { $lte: now } }; a document without
\* sendAt does not match $lte
Due(r, now) ==
    /\ r.sent = FALSE
    /\ r.sendAt # Undefined
    /\ r.sendAt <= now

\* a query that leaves out the reminders already tried once
FindDueUntried(now) ==
    LET ids == SelectSeq([k \in 1..Len(store) |-> k],
                         LAMBDA k : Due(store[k], now) /\ gwCalls[k] = <<>>)
    IN  [j \in 1..Len(ids) |-> [id |-> ids[j], doc |-> store[ids[j]]]]

\* Reminder.find(filter): the matching documents, each a copy tagged with its _id
FindDue(now) ==
    LET ids == SelectSeq([k \in 1..Len(store) |-> k], LAMBDA k : Due(store[k], now))
    IN  [j \in 1..Len(ids) |-> [id |-> ids[j], doc |-> store[ids[j]]]]

\* a save that does not write the modified path
SaveSentDropped(id) == store

\* r.save() after r.sent = true: writes the modified path to the document
SaveSent(id) == [store EXCEPT ![id].sent = TRUE]

\* an insert that replaces the oldest document (an upsert)
InsertReplacing(docs) ==
    IF store = <<>> THEN docs ELSE docs \o SubSeq(store, 2, Len(store))

\* reminder.save() / insertMany of new documents
Insert(docs) == store \o docs

----------------------------------------------------------------------------
\* Message composition

\* toLocaleDateString('en-US', {weekday, year, month, day: long forms})
LongDate(d) ==
    IF d = 0 THEN "Thursday, January 1, 1970" ELSE "Invalid Date"

\* toLocaleDateString()
ShortDate(d) ==
    IF d = 0 THEN "1/1/1970" ELSE "Invalid Date"

MedicationMsg(r) ==
    <<"Hi ", r.name, ", this is your reminder to take: ", r.medication, ".">>

\* index.js: msg stays '' for a type that is neither
ComposeIndex(r) ==
    IF r.type = "medication" THEN MedicationMsg(r)
    ELSE IF r.type = "appointment" THEN
        <<"Hi ", r.name, ", reminder: You have a doctor's appointment on ",
          LongDate(r.appointmentDate), " at ", r.appointmentTime, " at ",
          r.clinicName, ". Reply CONFIRM to acknowledge.">>
    ELSE <<>>

ComposeP1(r) ==
    IF r.type = "medication" THEN MedicationMsg(r)
    ELSE <<"Hi ", r.name, ", reminder: You have a doctor's appointment on ",
           ShortDate(r.appointmentDate), " at ", r.appointmentTime, " at ",
           r.clinicName, ".">>

ComposeJob(r) ==
    <<"Hi ", r.name, ", it's time to take your medication: ", r.medication>>

\* finalMessage of /send-sms
FinalMessage(name, message) ==
    IF name # NoStr THEN <<"Hi ", name, ", ">> \o message ELSE message

----------------------------------------------------------------------------
\* Inputs of the requests

Names == {"Ann"}

Medications == {"Metformin"}

\* bodies {to, message, name} POSTed to /send-sms: a missing to, a missing
\* message, and a text to each kind of number, with and without a name
SendSmsInputs ==
    {<<NoPhone, <<"Take care.">>, NoStr>>, <<LocalPhone, <<>>, NoStr>>,
     <<LocalPhone, <<"Take care.">>, "Ann">>} \cup
    {<<to, <<"Take care.">>, NoStr>> : to \in Phones \ {NoPhone}}

\* process.env.TEST_PHONE_NUMBER || '+254712345678'
TestPhone == <<"+", "2", "5", "4", "7", "1", "2", "3", "4", "5", "6", "7", "8">>

TestMessage == <<"Hello from CareSync! This is a test message.">>

\* what sms.send (or the sendSMS library) comes back with
GatewayOutcomes == {"Success", "NotSuccess", "Throw"}

\* an HTTP response with the gateway call made to produce it, if one was
Response(status, to, message) == [status |-> status, to |-> to, message |-> message]

Reply(status) == Response(status, <<>>, <<>>)

----------------------------------------------------------------------------
\* The state after the process has started and the store is connected

IdleTick == [pc |-> "idle", now |-> 0, batch |-> <<>>, i |-> 1, failed |-> FALSE]

Init ==
    /\ rev \in Revs
    /\ store = <<>>
    /\ clock = 0
    /\ tick = [t \in TickIds |-> IdleTick]
    /\ gwCalls = <<>>
    /\ resp = Reply(0)
    /\ saveFailed = FALSE
    /\ escaped = FALSE

dispatchVars == <<clock, tick, saveFailed, escaped>>

----------------------------------------------------------------------------
\* HTTP handlers that do not touch the store's contents

\* GET /health
Health ==
    /\ rev \in {"index", "part_001"}
    /\ resp' = Reply(200)
    /\ UNCHANGED <<rev, store, gwCalls, dispatchVars>>

\* GET /api/reminders: Reminder.find().sort({sendAt: -1}), or 500
ListReminders(ok) ==
    /\ rev \in {"index", "part_001"}
    /\ resp' = Reply(IF ok THEN 200 ELSE 500)
    /\ UNCHANGED <<rev, store, gwCalls, dispatchVars>>

\* the response of /send-sms to what sms.send came back with
SendSmsStatus(outcome) ==
    IF outcome = "Success" THEN 200
    ELSE IF outcome = "NotSuccess" THEN 400
    ELSE 500

\* POST /send-sms of index.js
SendSmsIndex(to, message, name, outcome) ==
    /\ rev = "index"
    /\ resp' = IF to = NoPhone \/ message = <<>> THEN Reply(400)
                ELSE IF ~phoneRegexTest(InlineFormat(to)) THEN Reply(400)
                ELSE Response(SendSmsStatus(outcome), InlineFormat(to),
                              FinalMessage(name, message))
    /\ UNCHANGED <<rev, store, gwCalls, dispatchVars>>

\* POST /send-sms of part_001
SendSmsP1(to, message, name, outcome) ==
    /\ rev = "part_001"
    /\ resp' = IF to = NoPhone \/ message = <<>> THEN Reply(400)
                ELSE IF formatPhone(to) = <<>> THEN Reply(400)
                ELSE Response(SendSmsStatus(outcome), formatPhone(to),
                              FinalMessage(name, message))
    /\ UNCHANGED <<rev, store, gwCalls, dispatchVars>>

\* POST /test-sms: the result of sms.send is not inspected
TestSms(outcome) ==
    /\ rev \in {"index", "part_001"}
    /\ resp' = Response(IF outcome = "Throw" THEN 500 ELSE 200, TestPhone, TestMessage)
    /\ UNCHANGED <<rev, store, gwCalls, dispatchVars>>

----------------------------------------------------------------------------
\* HTTP handlers that create reminders

Clinics == {"Clinic"}

AppointmentTimes == {"10:00"}

\* an appointment date in the past of every clock time
AppointmentDates == {0}

\* await <insert of docs>; res.json(...) -- or the catch block's 500.
\* The store accepts a write (ok) or rejects it.
SaveAndRespond(docs, ok) ==
    IF ok
    THEN /\ Len(store) + Len(docs) <= MaxReminders
         /\ store' = Insert(docs)
         /\ gwCalls' = gwCalls \o [k \in 1..Len(docs) |-> <<>>]
         /\ resp' = Reply(200)
    ELSE /\ resp' = Reply(500)
         /\ UNCHANGED <<store, gwCalls>>

\* the 400 of part_001's handlers
RejectRequest ==
    /\ resp' = Reply(400)
    /\ UNCHANGED <<store, gwCalls>>

\* POST /api/reminders/medication of index.js
CreateMedicationIndex(name, phone, medication, sendAt, ok) ==
    /\ rev = "index"
    /\ SaveAndRespond(<<MedicationReminder(name, phone, medication, sendAt)>>, ok)
    /\ UNCHANGED <<rev, dispatchVars>>

\* POST /api/reminders/appointment of index.js
CreateAppointmentIndex(name, phone, clinicName, appointmentDate, appointmentTime, sendAt, ok) ==
    /\ rev = "index"
    /\ SaveAndRespond(<<AppointmentReminder(name, phone, clinicName, appointmentDate,
                                            appointmentTime, sendAt)>>, ok)
    /\ UNCHANGED <<rev, dispatchVars>>

\* POST /api/reminders of index.js
CreateGenericIndex(name, phone, medication, sendAt, ok) ==
    /\ rev = "index"
    /\ SaveAndRespond(<<MedicationReminder(name, phone, medication, sendAt)>>, ok)
    /\ UNCHANGED <<rev, dispatchVars>>

\* POST /api/reminders/medication of part_001
CreateMedicationP1(name, phone, medication, sendAt, ok) ==
    /\ rev = "part_001"
    /\ IF phone = NoPhone
       THEN RejectRequest
       ELSE SaveAndRespond(<<MedicationReminder(name, phone, medication, sendAt)>>, ok)
    /\ UNCHANGED <<rev, dispatchVars>>

\* POST /api/reminders/appointment of part_001
CreateAppointmentP1(name, phone, clinicName, appointmentDate, appointmentTime, sendAt, ok) ==
    /\ rev = "part_001"
    /\ IF phone = NoPhone
       THEN RejectRequest
       ELSE SaveAndRespond(<<AppointmentReminder(name, phone, clinicName,
                               appointmentDate, appointmentTime, sendAt)>>, ok)
    /\ UNCHANGED <<rev, dispatchVars>>

\* parseInt(repeatDays) || 1
RepeatDays(repeatDays) ==
    IF repeatDays = Undefined \/ repeatDays = 0 THEN 1 ELSE repeatDays

\* a batch whose documents all carry the submitted sendAt
BatchDocsSameDay(name, phone, medication, sendAt, days) ==
    [k \in 1..days |-> MedicationReminder(name, phone, medication, sendAt)]

\* Array.from({ length: days }, (_, i) => ({..., sendAt: sendAt + i * 24h, sent: false}))
BatchDocs(name, phone, medication, sendAt, days) ==
    [k \in 1..days |-> MedicationReminder(name, phone, medication,
                                          sendAt + (k - 1) * DayMs)]

\* POST /api/reminders of part_001. new Date(undefined) is an Invalid Date,
\* which insertMany rejects, as the store may reject any write.
CreateBatchP1(name, phone, medication, sendAt, repeatDays, ok) ==
    /\ rev = "part_001"
    /\ IF phone = NoPhone
       THEN RejectRequest
       ELSE IF sendAt = Undefined
       THEN resp' = Reply(500) /\ UNCHANGED <<store, gwCalls>>
       ELSE SaveAndRespond(BatchDocs(name, phone, medication, sendAt,
                                     RepeatDays(repeatDays)), ok)
    /\ UNCHANGED <<rev, dispatchVars>>

\* the store of part_000 is filled by documents of models/Reminder.js
InsertJobReminder(name, phone, medication, sendAt) ==
    /\ rev = "part_000"
    /\ Len(store) < MaxReminders
    /\ store' = Insert(<<JobReminder(name, phone, medication, sendAt)>>)
    /\ gwCalls' = gwCalls \o <<<<>>>>
    /\ UNCHANGED <<rev, resp, dispatchVars>>

----------------------------------------------------------------------------
\* The cron callback ('* * * * *'): node-cron fires it at every minute, whether
\* or not an earlier invocation has returned, so up to |TickIds| invocations
\* run at once. A firing moves the clock to its minute. Each await is a point where the others and the HTTP handlers
\* run.

Running(t) == tick[t].pc # "idle"

NoneRunning == \A u \in TickIds : ~Running(u)

\* the invocation slots are interchangeable: a firing takes the lowest free one
FreeSlot(t) ==
    /\ ~Running(t)
    /\ \A u \in TickIds : u < t => Running(u)

\* the for loop goes to its next record, or ends and the callback returns
NextRecord(tk) ==
    IF tk.i + 1 > Len(tk.batch)
    THEN IdleTick
    ELSE [tk EXCEPT !.pc = "loop", !.i = tk.i + 1, !.failed = FALSE]

\* the outer catch of part_000: the callback returns, and the records after
\* the current one are dropped
AbortBatch(tk) == IdleTick

\* const now = new Date(); const reminders = await Reminder.find(...)
BeginTick(now, batch) ==
    IF batch = <<>>
    THEN IdleTick
    ELSE [pc |-> "loop", now |-> now, batch |-> batch, i |-> 1, failed |-> FALSE]

\* a callback that would not start while another one is running
CronFireWhenIdle(t, findOk) ==
    /\ rev \in {"index", "part_001"}
    /\ FreeSlot(t)
    /\ NoneRunning
    /\ clock < MaxMinutes * MinuteMs
    /\ clock' = clock + MinuteMs
    /\ IF findOk
       THEN /\ tick' = [tick EXCEPT ![t] = BeginTick(clock', FindDue(clock'))]
            /\ escaped' = escaped
       ELSE /\ tick' = [tick EXCEPT ![t] = IdleTick]
            /\ escaped' = TRUE
    /\ UNCHANGED <<rev, store, gwCalls, resp, saveFailed>>

\* index.js and part_001: the find is awaited outside any try block, so its
\* rejection leaves the callback
CronFire(t, findOk) ==
    /\ rev \in {"index", "part_001"}
    /\ FreeSlot(t)
    /\ clock < MaxMinutes * MinuteMs
    /\ clock' = clock + MinuteMs
    /\ IF findOk
       THEN /\ tick' = [tick EXCEPT ![t] = BeginTick(clock', FindDue(clock'))]
            /\ escaped' = escaped
       ELSE /\ tick' = [tick EXCEPT ![t] = IdleTick]
            /\ escaped' = TRUE
    /\ UNCHANGED <<rev, store, gwCalls, resp, saveFailed>>

\* part_000: the find is inside the try block
CronFireJob(t, findOk) ==
    /\ rev = "part_000"
    /\ FreeSlot(t)
    /\ clock < MaxMinutes * MinuteMs
    /\ clock' = clock + MinuteMs
    /\ tick' = [tick EXCEPT ![t] =
                  IF findOk THEN BeginTick(clock', FindDue(clock'))
                  ELSE IdleTick]
    /\ UNCHANGED <<rev, store, gwCalls, resp, saveFailed, escaped>>

\* The firings after the horizon: the cron job goes on firing at every
\* minute; the minutes after MaxMinutes are not told apart, and the clock
\* stays at the horizon.
CronFireLate(t, findOk) ==
    /\ rev \in {"index", "part_001"}
    /\ FreeSlot(t)
    /\ clock = MaxMinutes * MinuteMs
    /\ IF findOk
       THEN /\ tick' = [tick EXCEPT ![t] = BeginTick(clock, FindDue(clock))]
            /\ escaped' = escaped
       ELSE /\ tick' = [tick EXCEPT ![t] = IdleTick]
            /\ escaped' = TRUE
    /\ UNCHANGED <<rev, store, clock, gwCalls, resp, saveFailed>>

\* if (!r.phone) continue -- the inline formatting of index.js cannot throw
\* on a string, so its catch block never runs
SkipsIndex(r) == r.phone = NoPhone

\* the loop of part_001 without its second check
SkipsP1PhoneOnly(r) == r.phone = NoPhone

\* if (!r.phone) continue; if (!formatPhone(r.phone)) continue
SkipsP1(r) == r.phone = NoPhone \/ formatPhone(r.phone) = <<>>

\* index.js and part_001 reach r.sent = true whenever sms.send resolves:
\* the result is not inspected
MarksSent(outcome) == outcome # "Throw"

\* part_000: if (result.success)
JobMarksSent(outcome) == outcome = "Success"

\* gwCalls keeps, for each reminder, the calls of up to MaxMinutes firings:
\* all of them while the clock is within the horizon
Record(calls, call) ==
    IF Len(calls) < MaxMinutes THEN Append(calls, call) ELSE calls

\* One record of the loop, up to the await of sms.send and its settling:
\* skip it, or send and go on to r.save() or to the catch block.
LoopStep(t, skips, to, message, outcome, marks) ==
    LET tk == tick[t]
        id == tk.batch[tk.i].id
    IN
    IF skips
    THEN /\ tick' = [tick EXCEPT ![t] = NextRecord(tk)]
         /\ UNCHANGED gwCalls
    ELSE /\ gwCalls' = [gwCalls EXCEPT ![id] =
                          Record(@, [to |-> to, message |-> message, at |-> tk.now])]
         /\ tick' = [tick EXCEPT ![t] =
                       LET f == [tk EXCEPT !.failed = (outcome # "Success")]
                       IN  IF marks THEN [f EXCEPT !.pc = "save"] ELSE NextRecord(f)]

ProcessIndex(t, outcome) ==
    /\ rev = "index"
    /\ tick[t].pc = "loop"
    /\ LET r == tick[t].batch[tick[t].i].doc IN
       LoopStep(t, SkipsIndex(r), InlineFormat(r.phone), ComposeIndex(r), outcome,
                MarksSent(outcome))
    /\ UNCHANGED <<rev, store, clock, resp, saveFailed, escaped>>

ProcessP1(t, outcome) ==
    /\ rev = "part_001"
    /\ tick[t].pc = "loop"
    /\ LET r == tick[t].batch[tick[t].i].doc IN
       LoopStep(t, SkipsP1(r), formatPhone(r.phone), ComposeP1(r), outcome,
                MarksSent(outcome))
    /\ UNCHANGED <<rev, store, clock, resp, saveFailed, escaped>>

\* what the sendSMS library returns: { success: true } or { success: false, error }
SendSmsLibOutcomes == {"Success", "NotSuccess"}

\* part_000: sendSMS(reminder.phone, message, reminder.name), no skip
ProcessJob(t, outcome) ==
    /\ rev = "part_000"
    /\ tick[t].pc = "loop"
    /\ outcome \in SendSmsLibOutcomes
    /\ LET r == tick[t].batch[tick[t].i].doc IN
       LoopStep(t, FALSE, r.phone, ComposeJob(r), outcome, JobMarksSent(outcome))
    /\ UNCHANGED <<rev, store, clock, resp, saveFailed, escaped>>

\* await r.save() inside the per-record try of index.js and part_001
SaveRecord(t, ok) ==
    /\ rev \in {"index", "part_001"}
    /\ tick[t].pc = "save"
    /\ store' = IF ok THEN SaveSent(tick[t].batch[tick[t].i].id) ELSE store
    /\ saveFailed' = (saveFailed \/ ~ok)
    /\ tick' = [tick EXCEPT ![t] = NextRecord(tick[t])]
    /\ UNCHANGED <<rev, clock, gwCalls, resp, escaped>>

\* await reminder.save() of part_000: a rejection goes to the catch block
\* around the whole loop
SaveRecordJob(t, ok) ==
    /\ rev = "part_000"
    /\ tick[t].pc = "save"
    /\ store' = IF ok THEN SaveSent(tick[t].batch[tick[t].i].id) ELSE store
    /\ saveFailed' = (saveFailed \/ ~ok)
    /\ tick' = [tick EXCEPT ![t] =
                  IF ok THEN NextRecord(tick[t]) ELSE AbortBatch(tick[t])]
    /\ UNCHANGED <<rev, clock, gwCalls, resp, escaped>>

----------------------------------------------------------------------------

HttpRead ==
    \/ Health
    \/ \E ok \in BOOLEAN : ListReminders(ok)

HttpSend ==
    \/ \E in \in SendSmsInputs, outcome \in GatewayOutcomes :
            \/ SendSmsIndex(in[1], in[2], in[3], outcome)
            \/ SendSmsP1(in[1], in[2], in[3], outcome)
    \/ \E outcome \in GatewayOutcomes : TestSms(outcome)

HttpCreate ==
    \E name \in Names, ok \in BOOLEAN :
        \/ \E in \in MedicationInputs, medication \in Medications :
            \/ CreateMedicationIndex(name, in[1], medication, in[2], ok)
            \/ CreateGenericIndex(name, in[1], medication, in[2], ok)
            \/ CreateMedicationP1(name, in[1], medication, in[2], ok)
            \/ \E repeatDays \in RepeatInputs :
                 CreateBatchP1(name, in[1], medication, in[2], repeatDays, ok)
        \/ \E in \in AppointmentInputs, clinicName \in Clinics,
              appointmentDate \in AppointmentDates,
              appointmentTime \in AppointmentTimes :
            \/ CreateAppointmentIndex(name, in[1], clinicName, appointmentDate,
                                      appointmentTime, in[2], ok)
            \/ CreateAppointmentP1(name, in[1], clinicName, appointmentDate,
                                   appointmentTime, in[2], ok)

\* part_000 has no handler of its own: documents reach its collection from outside
JobInsert ==
    \E name \in Names, in \in MedicationInputs, medication \in Medications :
        InsertJobReminder(name, in[1], medication, in[2])

Dispatch ==
    \E t \in TickIds :
        \/ \E findOk \in BOOLEAN : CronFire(t, findOk) \/ CronFireJob(t, findOk)
        \/ \E outcome \in GatewayOutcomes :
            \/ ProcessIndex(t, outcome)
            \/ ProcessP1(t, outcome)
            \/ ProcessJob(t, outcome)
        \/ \E ok \in BOOLEAN : SaveRecord(t, ok) \/ SaveRecordJob(t, ok)

Next ==
    \/ HttpRead
    \/ HttpSend
    \/ HttpCreate
    \/ JobInsert
    \/ Dispatch

Spec == Init /\ [][Next]_vars

----------------------------------------------------------------------------
\* The same system when the callbacks do not overlap (a firing finds every
\* slot free) and every gateway call of the dispatch loop succeeds. The store
\* may still reject a read or a write.

SerialDispatch ==
    \E t \in TickIds :
        \/ \E findOk \in BOOLEAN :
            \/ NoneRunning /\ CronFire(t, findOk)
            \/ NoneRunning /\ CronFireJob(t, findOk)
        \/ ProcessIndex(t, "Success")
        \/ ProcessP1(t, "Success")
        \/ ProcessJob(t, "Success")
        \/ \E ok \in BOOLEAN : SaveRecord(t, ok) \/ SaveRecordJob(t, ok)

SerialNext ==
    \/ HttpRead
    \/ HttpSend
    \/ HttpCreate
    \/ JobInsert
    \/ SerialDispatch

SpecSerial == Init /\ [][SerialNext]_vars

----------------------------------------------------------------------------
\* Phone normalization on its own: one due medication reminder is stored with
\* a raw phone string, the callbacks dispatch it, and the same string is
\* POSTed to /send-sms. Callbacks do not overlap and the gateway and the store
\* do not fail, so that only the normalization decides what happens.

NormalizeText == <<"Take care.">>

InitNormalize ==
    /\ rev \in {"index", "part_001"}
    /\ \E phone \in PhoneInputs :
         store = <<MedicationReminder("Ann", phone, "Metformin", MinuteMs)>>
    /\ clock = 0
    /\ tick = [t \in TickIds |-> IdleTick]
    /\ gwCalls = <<<<>>>>
    /\ resp = Reply(0)
    /\ saveFailed = FALSE
    /\ escaped = FALSE

NormalizeSend ==
    \E outcome \in GatewayOutcomes :
        \/ SendSmsIndex(store[1].phone, NormalizeText, NoStr, outcome)
        \/ SendSmsP1(store[1].phone, NormalizeText, NoStr, outcome)

NormalizeDispatch ==
    \E t \in TickIds :
        \/ NoneRunning /\ CronFire(t, TRUE)
        \/ ProcessIndex(t, "Success")
        \/ ProcessP1(t, "Success")
        \/ SaveRecord(t, TRUE)

NormalizeNext ==
    \/ NormalizeSend
    \/ NormalizeDispatch

SpecNormalize == InitNormalize /\ [][NormalizeNext]_vars

----------------------------------------------------------------------------
\* The reminders of index.js and their dispatch under fair scheduling:
\* node-cron fires the callback at every minute, without end, and every await
\* of a callback settles, so a callback that has a step to take takes it.

InitLive == Init /\ rev = "index"

CreateLive ==
    \E in \in MedicationInputs :
        CreateMedicationIndex("Ann", in[1], "Metformin", in[2], TRUE)

CronStep ==
    \E t \in TickIds, findOk \in BOOLEAN :
        \/ CronFire(t, findOk)
        \/ CronFireLate(t, findOk)

CallbackStep(t) ==
    \/ \E outcome \in GatewayOutcomes : ProcessIndex(t, outcome)
    \/ \E ok \in BOOLEAN : SaveRecord(t, ok)

LiveNext ==
    \/ CreateLive
    \/ CronStep
    \/ \E t \in TickIds : CallbackStep(t)

SpecLive ==
    /\ InitLive
    /\ [][LiveNext]_vars
    /\ WF_vars(CronStep)
    /\ \A t \in TickIds : WF_vars(CallbackStep(t))

----------------------------------------------------------------------------
\* Claims

Ids == 1..Len(store)

\* the record a running callback is at
Current(t) == tick[t].batch[tick[t].i]

\* callback t takes a step
Moves(t) == tick'[t] # tick[t]

C2_FailedStaysUnsent ==
    [][\A t \in TickIds :
         (/\ tick[t].pc = "save"
          /\ tick[t].failed
          /\ Moves(t)
          /\ ~store[Current(t).id].sent) => ~store'[Current(t).id].sent]_vars

\* C3: no callback holds in its batch, and the gateway was never invoked for,
\* a reminder whose sendAt is later than the callback's now (or missing).
C3_NeverBeforeSendAt ==
    /\ \A t \in TickIds : Running(t) =>
         \A j \in 1..Len(tick[t].batch) :
             /\ tick[t].batch[j].doc.sendAt # Undefined
             /\ tick[t].batch[j].doc.sendAt <= tick[t].now
    /\ \A id \in Ids : \A k \in 1..Len(gwCalls[id]) :
             /\ store[id].sendAt # Undefined
             /\ store[id].sendAt <= gwCalls[id][k].at

\* after the first firing: an appointment reminder whose appointmentDate is
\* past and whose sendAt is to come was left alone, while a reminder stored
\* after it was dispatched
C3_Witness ==
    /\ clock = MinuteMs
    /\ \E a \in Ids, b \in Ids :
        /\ a < b
        /\ store[a].type = "appointment"
        /\ store[a].appointmentDate < clock
        /\ store[a].sendAt > clock
        /\ gwCalls[a] = <<>>
        /\ ~store[a].sent
        /\ Len(gwCalls[b]) = 1

\* C4: nothing keeps the cron callback from starting while another invocation
\* is still processing its records (so both can hold the same unsent reminder
\* and each send it: C4_Witness).
C4_NoTickGuard ==
    \A t \in TickIds :
        (/\ rev \in {"index", "part_001"}
         /\ FreeSlot(t)
         /\ \E u \in TickIds : Running(u)
         /\ clock < MaxMinutes * MinuteMs) => ENABLED CronFire(t, TRUE)

\* two callbacks selected the same reminder, each has had its gateway call
\* for it succeed, and each is about to mark it: it was sent twice
C4_Witness ==
    /\ rev \in {"index", "part_001"}
    /\ ~saveFailed
    /\ \E id \in Ids :
        /\ Len(gwCalls[id]) = 2
        /\ ~store[id].sent
        /\ \A t \in TickIds :
            /\ tick[t].pc = "save"
            /\ ~tick[t].failed
            /\ Current(t).id = id

\* C5: a callback returns only from the last record of its batch: no outcome
\* of a record keeps the records after it from being attempted.
C5_WholeBatch ==
    [][\A t \in TickIds :
         (Running(t) /\ tick'[t].pc = "idle") => tick[t].i = Len(tick[t].batch)]_vars


\* a phone in local format: the trunk prefix 0 followed by digits
LocalFormat(p) ==
    /\ Len(p) >= 2
    /\ p[1] = "0"
    /\ \A k \in 2..Len(p) : p[k] \in Digits

\* a medication reminder of index.js or part_001 with a local-format phone
C6_Case(r) ==
    /\ rev \in {"index", "part_001"}
    /\ r.type = "medication"
    /\ LocalFormat(r.phone)

C7_Unusable(phone) ==
    \/ phone = NoPhone
    \/ rev = "part_001" /\ formatPhone(phone) = <<>>

\* C7: the step of a callback of index.js or part_001 at a record whose phone
\* is empty or cannot be normalized invokes no gateway call, leaves the store
\* as it is, and moves the callback to the next record of its batch.
C7_SkipsUnusablePhone ==
    [][\A t \in TickIds :
         (/\ rev \in {"index", "part_001"}
          /\ tick[t].pc = "loop"
          /\ Moves(t)
          /\ C7_Unusable(Current(t).doc.phone)) =>
              /\ gwCalls' = gwCalls
              /\ store' = store
              /\ tick'[t] = IF tick[t].i < Len(tick[t].batch)
                            THEN [tick[t] EXCEPT !.i = tick[t].i + 1]
                            ELSE IdleTick]_vars

\* a callback has passed a record without a phone and is at the next one
C7_Witness ==
    \E t \in TickIds :
        /\ tick[t].pc = "loop"
        /\ tick[t].i = 2
        /\ tick[t].batch[1].doc.phone = NoPhone
        /\ gwCalls[tick[t].batch[1].id] = <<>>
        /\ ~store[tick[t].batch[1].id].sent

\* C8: a reminder enters the store with sent = false; the sent flag of a
\* stored reminder changes only from false to true, and only in the step of
\* a callback that is at that reminder's r.save().
C8_SentOnlySetByDispatch ==
    [][/\ Len(store') >= Len(store)
       /\ \A id \in 1..Len(store') :
            IF id > Len(store)
            THEN store'[id].sent = FALSE
            ELSE store'[id].sent # store[id].sent =>
                    /\ store[id].sent = FALSE
                    /\ store'[id].sent = TRUE
                    /\ \E t \in TickIds :
                        /\ tick[t].pc = "save"
                        /\ Current(t).id = id
                        /\ Moves(t)]_vars

\* a batch of two was created, and the dispatch loop has marked one of them
C8_Witness ==
    /\ rev = "part_001"
    /\ Len(store) = 2
    /\ store[1].sent
    /\ ~store[2].sent
    /\ store[2].sendAt = store[1].sendAt + DayMs

\* store s with the sent flags left out
C9_Content(s) ==
    [id \in 1..Len(s) |-> [s[id] EXCEPT !.sent = FALSE]]

\* C9: /health, the list endpoint, /send-sms and /test-sms leave the store as
\* it is; a create endpoint leaves every stored reminder as it is and only
\* appends; and no step at all removes a reminder or changes anything of a
\* stored one but its sent flag.
C9_HandlersOnlyAdd ==
    [][/\ store' # store => ~(HttpRead \/ HttpSend)
       /\ SubSeq(store', 1, Len(store)) # store => ~HttpCreate
       /\ Len(store') >= Len(store)
       /\ SubSeq(C9_Content(store'), 1, Len(store)) = C9_Content(store)]_vars

\* a reminder was marked sent, and a /send-sms that failed at the gateway
\* has left it so
C9_Witness ==
    /\ rev = "index"
    /\ resp.status = 500
    /\ resp.to # <<>>
    /\ \E id \in Ids : store[id].sent

\* C10: the create endpoints reject a request without a phone, so no stored
\* reminder of index.js or part_001 has an empty phone.
C10_NoEmptyPhone ==
    rev \in {"index", "part_001"} => \A id \in Ids : store[id].phone # NoPhone

\* the stripped phone starts with the trunk prefix
TrunkPrefixed(phone) == StartsWith(StripPhone(phone), <<"0">>)

\* +254 followed by the stripped phone without its first character
C11_Expected(phone) == <<"+", "2", "5", "4">> \o Tail(StripPhone(phone))

\* C11: for a phone that, stripped of whitespace, hyphens and parentheses,
\* starts with 0, the inline formatting and formatPhone both return +254
\* followed by the stripped string without its first character, and that is
\* the destination of every gateway call made for it by the dispatch loop
\* and by /send-sms.
C11_TrunkPrefixReplaced ==
    \A id \in Ids :
        TrunkPrefixed(store[id].phone) =>
            /\ InlineFormat(store[id].phone) = C11_Expected(store[id].phone)
            /\ formatPhone(store[id].phone) = C11_Expected(store[id].phone)
            /\ \A k \in 1..Len(gwCalls[id]) :
                 gwCalls[id][k].to = C11_Expected(store[id].phone)
            /\ resp.to # <<>> => resp.to = C11_Expected(store[id].phone)

\* the loop has sent to a number that was stored with a trunk prefix and with
\* characters to strip, and /send-sms has sent to the same number
C11_Witness ==
    \E id \in Ids :
        /\ TrunkPrefixed(store[id].phone)
        /\ StripPhone(store[id].phone) # store[id].phone
        /\ Len(gwCalls[id]) = 1
        /\ Len(gwCalls[id][1].to) = Len(StripPhone(store[id].phone)) + 3
        /\ resp.status = 200
        /\ resp.to = gwCalls[id][1].to

\* the stripped phone starts with the country code, with or without the plus
HasCountryCode(phone) ==
    \/ StartsWith(StripPhone(phone), <<"2", "5", "4">>)
    \/ StartsWith(StripPhone(phone), <<"+", "2", "5", "4">>)

\* C12: for a phone that bears the country code, normalizing the normalized
\* number gives the normalized number again, under the inline formatting and
\* under formatPhone; so it is for every destination the dispatch loop has
\* sent to, under the formatting of the revision that runs.
C12_Idempotent ==
    \A id \in Ids :
        HasCountryCode(store[id].phone) =>
            /\ InlineFormat(InlineFormat(store[id].phone)) = InlineFormat(store[id].phone)
            /\ formatPhone(formatPhone(store[id].phone)) = formatPhone(store[id].phone)
            /\ \A k \in 1..Len(gwCalls[id]) :
                 LET d == gwCalls[id][k].to IN
                 IF rev = "index" THEN InlineFormat(d) = d ELSE formatPhone(d) = d

\* the loop has sent to a number stored as 254... without the plus, and to
\* one stored as +254...: the first got its plus, the second went out as it was
C12_Witness ==
    \E id \in Ids :
        /\ Len(gwCalls[id]) = 1
        /\ \/ /\ StartsWith(store[id].phone, <<"2", "5", "4">>)
              /\ gwCalls[id][1].to = <<"+">> \o StripPhone(store[id].phone)
              /\ rev = "index"
           \/ /\ StartsWith(store[id].phone, <<"+", "2", "5", "4">>)
              /\ gwCalls[id][1].to = StripPhone(store[id].phone)
              /\ rev = "part_001"

\* the gateway call of a callback for reminder id has succeeded, and the
\* callback is about to write the sent flag
GatewaySucceeded(id) ==
    \E t \in TickIds :
        /\ tick[t].pc = "save"
        /\ ~tick[t].failed
        /\ Current(t).id = id

Sent(id) == id \in Ids /\ store[id].sent

\* every firing of index.js and part_001 whose due-query succeeds takes up
\* every reminder that is due and still unsent, however often it was tried
C13_Reselected ==
    [][(\E u \in TickIds : CronFire(u, TRUE) \/ CronFireLate(u, TRUE)) =>
          \A id \in Ids :
              Due(store[id], clock') =>
                  \E t \in TickIds :
                      /\ Moves(t)
                      /\ tick'[t].pc = "loop"
                      /\ tick'[t].now = clock'
                      /\ \E j \in 1..Len(tick'[t].batch) : tick'[t].batch[j].id = id]_vars

C14_NeverEscapes == ~escaped

\* C15: when the phone of a stored reminder has also been POSTed to
\* /send-sms (resp holds that exchange), the two paths agree: if the loop has
\* invoked the gateway for the reminder, /send-sms has invoked it with the
\* same destination, and if the loop has passed the reminder by without a
\* call, /send-sms has rejected the number.
C15_SamePolicy ==
    \A id \in Ids :
        resp.status # 0 =>
            /\ Len(gwCalls[id]) > 0 => resp.to = gwCalls[id][1].to
            /\ (clock > 0 /\ NoneRunning /\ gwCalls[id] = <<>>) => resp.to = <<>>

C17_ResentAfterRejectedWrite ==
    [][/\ \A t \in TickIds :
            (/\ rev \in {"index", "part_001"}
             /\ tick[t].pc = "save"
             /\ Moves(t)
             /\ ~store'[Current(t).id].sent) =>
                 /\ saveFailed'
                 /\ store' = store
       /\ (rev \in {"index", "part_001"} /\ clock' # clock /\ ~escaped') =>
            \A id \in Ids :
                (Len(gwCalls[id]) > 0 /\ Due(store[id], clock')) =>
                    \E t \in TickIds :
                        /\ Moves(t)
                        /\ tick'[t].pc = "loop"
                        /\ \E j \in 1..Len(tick'[t].batch) : tick'[t].batch[j].id = id
       /\ \A t \in TickIds :
            (/\ rev \in {"index", "part_001"}
             /\ tick[t].pc = "loop"
             /\ Moves(t)
             /\ Len(gwCalls[Current(t).id]) > 0) =>
                 LET id == Current(t).id IN
                 gwCalls'[id] = Append(gwCalls[id], [to |-> gwCalls[id][1].to,
                                                     message |-> gwCalls[id][1].message,
                                                     at |-> tick[t].now])]_vars

\* the first firing's call for a reminder succeeded and its write was
\* rejected; the second firing has called the gateway for it again
C17_Witness ==
    /\ rev \in {"index", "part_001"}
    /\ saveFailed
    /\ \E id \in Ids :
        /\ Len(gwCalls[id]) = 2
        /\ gwCalls[id][1].at = MinuteMs
        /\ gwCalls[id][2].at = 2 * MinuteMs
        /\ gwCalls[id][1].to = gwCalls[id][2].to
        /\ gwCalls[id][1].message = gwCalls[id][2].message

====
